---------------------------- MODULE Spec2Model ----------------------------
(***************************************************************************)
(* A model of kittens/icat/main.py: the chunk encoder (write_chunked), the *)
(* capability detector (detect_support) and the transfer orchestrator      *)
(* (process / show / main), with the placement calculator (set_cursor,     *)
(* set_cursor_for_place), parse_place and scan.                            *)
(*                                                                         *)
(* main is modelled as it runs without --print-window-size,                *)
(* --detect-support and --clear.                                           *)
(*                                                                         *)
(* Bytes are integers 0..255, byte strings are sequences of bytes.  A      *)
(* graphics Command is a function from protocol keys (strings) to values.  *)
(* The standard output stream is the sequence `out` of the things written  *)
(* to it, in order: graphics frames (one per write_gr_cmd) and plain text. *)
(***************************************************************************)
EXTENDS Integers, Sequences, FiniteSets, TLC

VARIABLES
    pc,         \* position of the single thread of control
    cmd,        \* the Command dict currently being built / sent
    data,       \* write_chunked: the local `data` (payload still to send)
    out,        \* everything written to sys.stdout, in order
    ret,        \* where write_chunked returns to
    wc_cmd0,    \* history: the Command as it was on entry to write_chunked
    wc_data0,   \* history: the data argument of write_chunked
    received,   \* detect_support: the accumulation buffer
    responses,  \* detect_support: probe id -> the response was OK
    silent,     \* detect_support: the argument `silent`
    has_files,  \* detect_support.has_files (FALSE stands for "not assigned yet":
                \* main assigns it, line 237 or 300, before show reads it)
    ds_result,  \* the value the last call of detect_support returned
    calls,      \* history: calls of detect_support that have returned
    tty_in,     \* bytes the terminal has sent that nobody has read yet
    tty_script, \* what the terminal will answer to each coming pair of probes
    fs,         \* the file system as the client's own actions leave it:
                \* path -> contents (what the terminal deletes is not shown)
    ss,         \* screen_size.ans: the geometry sampled by the last query
    changed,    \* screen_size.changed: the dirty flag the resize handler sets
    args,       \* main: the parsed options
    items,      \* main: the items still to be processed
    errors,     \* main: the OpenFailed errors collected so far
    exit_code,  \* main: how the run ended ("" while it runs)
    loc,        \* process / show: the locals for the item being processed
    nproc,      \* history: the number of items taken from the list so far
    processed,  \* history: the path argument of every call of process
    term,       \* the terminal's geometry as it is now
    magick      \* ImageMagick is installed

chunkVars == <<cmd, data, out, ret, wc_cmd0, wc_data0>>
detectVars == <<received, responses, silent, has_files, ds_result, calls>>
ttyVars == <<tty_in, tty_script>>
mainVars == <<ss, changed, args, items, errors, exit_code, loc, nproc, processed>>
worldVars == <<term, magick>>
vars == <<pc, chunkVars, detectVars, ttyVars, fs, mainVars, worldVars>>

---------------------------------------------------------------------------
(* Bounds of the model                                                     *)

\* all byte strings over ByteSamples up to this length are tried
MaxSmallLen == 3
\* lengths within this distance of a frame boundary are tried
BoundaryWindow == 1
\* the largest number of full frames whose boundary is tried
MaxFullFrames == 2
\* the terminal's answer to one pair of probes is at most this many pieces
MaxPieces == 2
\* the harness calls detect_support at most this many times
MaxCalls == 2
\* main is given at most this many paths on the command line
MaxItems == 2
\* one read from the terminal returns at most this many bytes, or all there is
MaxRecv == 2
\* the images whose placement is computed are at most this many pixels wide
MaxImgWidth == 10
\* a batch is at most this many files and directories
MaxBatch == 3

---------------------------------------------------------------------------
(* Sequence helpers                                                        *)

Min(a, b) == IF a < b THEN a ELSE b

Take(s, n) == SubSeq(s, 1, Min(n, Len(s)))

Drop(s, n) == SubSeq(s, n + 1, Len(s))

RECURSIVE SumMod(_, _, _, _)
\* (SUM_{i \in lo..hi} f[i]) % q, by halving so that the depth stays small
SumMod(f, lo, hi, q) ==
    IF lo > hi THEN 0
    ELSE IF lo = hi THEN f[lo] % q
    ELSE LET mid == (lo + hi) \div 2
         IN  (SumMod(f, lo, mid, q) + SumMod(f, mid + 1, hi, q)) % q

RECURSIVE SeqsUpTo(_, _)
\* all sequences over S of length <= n
SeqsUpTo(S, n) ==
    IF n = 0 THEN {<<>>}
    ELSE LET shorter == SeqsUpTo(S, n - 1)
         IN  shorter \cup {Append(s, x) : s \in {t \in shorter : Len(t) = n - 1}, x \in S}

---------------------------------------------------------------------------
(* The Command dict                                                        *)

EmptyCmd == [k \in {} |-> 0]

\* cmd[k] = v
Put(c, k, v) == [x \in (DOMAIN c) \cup {k} |-> IF x = k THEN v ELSE c[x]]

\* a mapping without the key k
Remove(c, k) == [x \in (DOMAIN c) \ {k} |-> c[x]]

\* one graphics frame on stdout: serialize_gr_command(cmd, payload)
Frame(c, payload) ==
    [kind |-> "frame", cmd |-> c, payload |-> payload, text |-> "", n |-> <<>>]

\* other bytes on stdout: what they are, and the numbers in them
Text(t, n) == [kind |-> "text", cmd |-> EmptyCmd, payload |-> <<>>, text |-> t, n |-> n]

\* write_gr_cmd: one serialized frame is appended to stdout and flushed
write_gr_cmd(o, c, payload) == Append(o, Frame(c, payload))

---------------------------------------------------------------------------
(* base64.standard_b64encode, and its inverse                              *)

\* the ASCII code of the base64 digit with value v (0..63)
B64Char(v) ==
    IF v < 26 THEN 65 + v
    ELSE IF v < 52 THEN 97 + (v - 26)
    ELSE IF v < 62 THEN 48 + (v - 52)
    ELSE IF v = 62 THEN 43 ELSE 47

B64Pad == 61

\* the value of the base64 digit with ASCII code ch (padding counts as 0)
B64Val(ch) ==
    IF ch >= 65 /\ ch <= 90 THEN ch - 65
    ELSE IF ch >= 97 /\ ch <= 122 THEN ch - 97 + 26
    ELSE IF ch >= 48 /\ ch <= 57 THEN ch - 48 + 52
    ELSE IF ch = 43 THEN 62
    ELSE IF ch = 47 THEN 63 ELSE 0

standard_b64encode(bytes) ==
    LET n == Len(bytes)
    IN  [i \in 1..(4 * ((n + 2) \div 3)) |->
            LET g  == (i - 1) \div 4
                j  == (i - 1) % 4
                b0 == bytes[3 * g + 1]
                b1 == IF 3 * g + 2 <= n THEN bytes[3 * g + 2] ELSE 0
                b2 == IF 3 * g + 3 <= n THEN bytes[3 * g + 3] ELSE 0
            IN  CASE j = 0 -> B64Char(b0 \div 4)
                  [] j = 1 -> B64Char((b0 % 4) * 16 + (b1 \div 16))
                  [] j = 2 -> IF 3 * g + 2 <= n
                              THEN B64Char((b1 % 16) * 4 + (b2 \div 64))
                              ELSE B64Pad
                  [] j = 3 -> IF 3 * g + 3 <= n THEN B64Char(b2 % 64) ELSE B64Pad]

\* what a receiver does with the concatenated payload
b64decode(chars) ==
    LET n   == Len(chars)
        pad == IF n = 0 THEN 0
               ELSE IF chars[n - 1] = B64Pad THEN 2
               ELSE IF chars[n] = B64Pad THEN 1 ELSE 0
    IN  [k \in 1..(3 * (n \div 4) - pad) |->
            LET g  == (k - 1) \div 3
                j  == (k - 1) % 3
                v0 == B64Val(chars[4 * g + 1])
                v1 == B64Val(chars[4 * g + 2])
                v2 == B64Val(chars[4 * g + 3])
                v3 == B64Val(chars[4 * g + 4])
            IN  CASE j = 0 -> v0 * 4 + (v1 \div 16)
                  [] j = 1 -> (v1 % 16) * 16 + (v2 \div 4)
                  [] j = 2 -> (v2 % 4) * 64 + v3]

---------------------------------------------------------------------------
(* zlib.compress.  The stream is modelled in the zlib container format     *)
(* (RFC 1950: two header bytes, deflate data, Adler-32 of the input) with  *)
(* the input carried in one stored deflate block (RFC 1951, BTYPE=00).     *)
(* What the model keeps of zlib.compress: the output is never empty, its   *)
(* length depends on the input, and it is not the input itself; a receiver *)
(* gets the input back only by undoing it.                                 *)

AdlerBase == 65521

Adler32(bytes) ==
    LET n == Len(bytes)
        a == (1 + SumMod(bytes, 1, n, AdlerBase)) % AdlerBase
        w == [i \in 1..n |-> ((n - i + 1) * bytes[i]) % AdlerBase]
        b == (n + SumMod(w, 1, n, AdlerBase)) % AdlerBase
    IN  <<b \div 256, b % 256, a \div 256, a % 256>>

zlib_compress(bytes) ==
    LET n == Len(bytes)
    IN  <<120, 156, 1, n % 256, n \div 256, 255 - (n % 256), 255 - (n \div 256)>>
        \o bytes \o Adler32(bytes)

\* what a receiver does: <<TRUE, bytes>>, or <<FALSE, <<>>>> for a bad stream
zlib_decompress(z) ==
    LET n    == Len(z) - 11
        body == SubSeq(z, 8, 7 + n)
        ok   == /\ n >= 0
                /\ Take(z, 3) = <<120, 156, 1>>
                /\ z[4] + 256 * z[5] = n
                /\ z[6] = 255 - z[4] /\ z[7] = 255 - z[5]
                /\ Drop(z, 7 + n) = Adler32(body)
    IN  IF ok THEN <<TRUE, body>> ELSE <<FALSE, <<>>>>

---------------------------------------------------------------------------
(* write_chunked                                                           *)

\* the protocol's frame payload limit
ChunkSize == 4096

\* the format value of an already compressed (PNG) payload
FmtPNG == 100

\* lines 146-149: the encoded payload
EncodedPayload(c, d) ==
    IF c["f"] # FmtPNG THEN standard_b64encode(zlib_compress(d))
    ELSE standard_b64encode(d)

\* lines 146-148: the Command after the compression decision
CmdAfterCompress(c) == IF c["f"] # FmtPNG THEN Put(c, "o", "z") ELSE c

\* line 151: chunk, data = data[:4096], data[4096:]
ChunkOf(d) == Take(d, ChunkSize)

\* a slice that starts one character late
RestOfSkipsOne(d) == Drop(d, ChunkSize + 1)

RestOf(d) == Drop(d, ChunkSize)

\* line 152: m = 1 if data else 0
MoreFlag(rest) == IF rest # <<>> THEN 1 ELSE 0

\* the Command is left as it is between frames
KeepCmd(c) == c

\* line 155: cmd.clear()
ClearCmd(c) == EmptyCmd

\* lines 146-149
write_chunked_enter ==
    /\ pc = "write_chunked"
    /\ cmd' = CmdAfterCompress(cmd)
    /\ data' = EncodedPayload(cmd, data)
    /\ pc' = "wc_loop"
    /\ UNCHANGED <<out, ret, wc_cmd0, wc_data0, detectVars, ttyVars, fs, mainVars, worldVars>>

\* lines 150-155: one iteration of the loop
write_chunked_frame ==
    /\ pc = "wc_loop"
    /\ data # <<>>
    /\ LET chunk == ChunkOf(data)
           rest  == RestOf(data)
       IN  /\ data' = rest
           /\ out' = write_gr_cmd(out, Put(cmd, "m", MoreFlag(rest)), chunk)
           /\ cmd' = ClearCmd(Put(cmd, "m", MoreFlag(rest)))
    /\ UNCHANGED <<pc, ret, wc_cmd0, wc_data0, detectVars, ttyVars, fs, mainVars, worldVars>>

\* line 150: the loop ends when no data is left
write_chunked_return ==
    /\ pc = "wc_loop"
    /\ data = <<>>
    /\ pc' = ret
    /\ UNCHANGED <<chunkVars, detectVars, ttyVars, fs, mainVars, worldVars>>

---------------------------------------------------------------------------
(* A harness that calls write_chunked(cmd, data) once                      *)

ByteSamples == {0, 77, 255}

\* raw bytes per full frame: 3 bytes give 4 encoded characters
RawPerFrame == (ChunkSize \div 4) * 3

\* bytes zlib_compress adds
ZlibOverhead == Len(zlib_compress(<<>>))

PatternBuf(n) == [i \in 1..n |-> (i * 37 + n) % 256]

BoundaryLens ==
    {k * RawPerFrame - z + d :
        k \in 1..MaxFullFrames, z \in {0, ZlibOverhead},
        d \in (0 - BoundaryWindow)..BoundaryWindow}

Buffers == SeqsUpTo(ByteSamples, MaxSmallLen) \cup {PatternBuf(n) : n \in BoundaryLens}

\* the Commands show() builds before it calls write_chunked (lines 159-173)
EntryCmds(d) ==
    {[a |-> "T", f |-> 24, s |-> 2, v |-> 1, X |-> 0],
     [a |-> "T", f |-> 32, s |-> 2, v |-> 1, c |-> 4, r |-> 1],
     [a |-> "T", f |-> FmtPNG, s |-> 2, v |-> 1, X |-> 3, S |-> Len(d)],
     [a |-> "T", f |-> FmtPNG, s |-> 2, v |-> 1, c |-> 4, r |-> 1, S |-> Len(d)]}

\* no item is being processed
NoLoc ==
    [path |-> <<>>, is_tempfile |-> FALSE, outfile |-> <<>>, width |-> 0, height |-> 0,
     fmt |-> 0, transmit_mode |-> "", converted |-> FALSE, base |-> 0,
     ss |-> [width |-> 0, height |-> 0, cols |-> 0, rows |-> 0]]

\* args.place is None
NoPlace == [given |-> FALSE, width |-> 0, height |-> 0, left |-> 0, top |-> 0]

NoArgs ==
    [align |-> "center", raw |-> <<>>, place |-> NoPlace, scale_up |-> FALSE,
     transfer_mode |-> "stream"]

NoScreen == [width |-> 0, height |-> 0, cols |-> 0, rows |-> 0]

\* main is not running
MainIdle ==
    /\ fs = EmptyCmd
    /\ ss = NoScreen
    /\ changed = TRUE
    /\ term = NoScreen
    /\ magick = TRUE
    /\ processed = <<>>
    /\ args = NoArgs
    /\ items = <<>>
    /\ errors = <<>>
    /\ exit_code = ""
    /\ loc = NoLoc
    /\ nproc = 0

\* detect_support has not been called and the terminal says nothing
DetectIdle ==
    /\ received = <<>>
    /\ responses = EmptyCmd
    /\ silent = TRUE
    /\ has_files = FALSE
    /\ ds_result = FALSE
    /\ calls = 0
    /\ tty_in = <<>>
    /\ tty_script = <<>>

InitChunk ==
    /\ DetectIdle
    /\ MainIdle
    /\ pc = "write_chunked"
    /\ ret = "wc_done"
    /\ out = <<>>
    /\ data \in Buffers
    /\ cmd \in EntryCmds(data)
    /\ wc_cmd0 = cmd
    /\ wc_data0 = data

NextChunk ==
    \/ write_chunked_enter
    \/ write_chunked_frame
    \/ write_chunked_return

SpecChunk == InitChunk /\ [][NextChunk]_vars

---------------------------------------------------------------------------
(* What a receiver sees of stdout                                          *)

IsFrame(e) == e.kind = "frame"

\* the frames written so far, in emission order
Frames == SelectSeq(out, IsFrame)

RECURSIVE ConcatPayloads(_)
ConcatPayloads(frs) ==
    IF frs = <<>> THEN <<>> ELSE Head(frs).payload \o ConcatPayloads(Tail(frs))

\* the receiver's view of a finished transfer: decode, then inflate if o=z
Received(frs) ==
    LET raw == b64decode(ConcatPayloads(frs))
    IN  IF frs # <<>> /\ "o" \in DOMAIN frs[1].cmd /\ frs[1].cmd["o"] = "z"
        THEN zlib_decompress(raw)
        ELSE <<TRUE, raw>>

---------------------------------------------------------------------------
(* Claims about write_chunked, checked under SpecChunk                     *)

\* C1: every call of write_chunked emits exactly one frame with m=0, that
\* frame is the last one emitted, and every earlier frame has m=1.
\* (Refuted by the code: with format 100 and an empty payload nothing is
\* emitted at all.)
C1_ExactlyOneFinalFrame ==
    pc = "wc_done" =>
        /\ Len(Frames) >= 1
        /\ Frames[Len(Frames)].cmd["m"] = 0
        /\ \A i \in 1..(Len(Frames) - 1) : Frames[i].cmd["m"] = 1

\* C2: the frames partition the encoded payload: no frame payload exceeds
\* 4096 characters, every frame but the last has exactly 4096, their
\* concatenation is the base64 text of the (deflated unless f=100) input,
\* and decoding and inflating it gives the input back.
C2_FramesPartitionPayload ==
    /\ \A i \in 1..Len(Frames) : Len(Frames[i].payload) <= ChunkSize
    /\ pc = "wc_done" =>
        /\ \A i \in 1..(Len(Frames) - 1) : Len(Frames[i].payload) = ChunkSize
        /\ ConcatPayloads(Frames) =
               standard_b64encode(IF wc_cmd0["f"] # FmtPNG
                                  THEN zlib_compress(wc_data0) ELSE wc_data0)
        /\ Received(Frames) = <<TRUE, wc_data0>>

\* a deflated transfer of two or more frames whose last frame is short
C2_Witness ==
    /\ pc = "wc_done"
    /\ wc_cmd0["f"] # FmtPNG
    /\ Len(Frames) >= 2
    /\ Len(Frames[Len(Frames)].payload) < ChunkSize

\* C3: in a transfer of two or more frames the first frame carries every
\* key the Command had on entry, with its value (and o=z exactly when the
\* format is not 100); every later frame carries the key m and nothing else.
C3_ControlKeysOnFirstFrameOnly ==
    Len(Frames) >= 2 =>
        /\ \A k \in DOMAIN wc_cmd0 :
               k \in DOMAIN Frames[1].cmd /\ Frames[1].cmd[k] = wc_cmd0[k]
        /\ ("o" \in DOMAIN Frames[1].cmd) = (wc_cmd0["f"] # FmtPNG)
        /\ DOMAIN Frames[1].cmd \subseteq (DOMAIN wc_cmd0) \cup {"o", "m"}
        /\ \A i \in 2..Len(Frames) : DOMAIN Frames[i].cmd = {"m"}

\* a finished transfer of three frames that started with geometry keys
C3_Witness ==
    /\ pc = "wc_done"
    /\ Len(Frames) >= 3
    /\ {"a", "f", "s", "v", "c", "r"} \subseteq DOMAIN wc_cmd0

---------------------------------------------------------------------------
(* detect_support: the response scanner                                    *)
(*                                                                         *)
(* Terminal input is a sequence of characters; the ones the pattern tells  *)
(* apart have names: ESC, BSL (backslash) and NL (newline, which `.` does  *)
(* not match).                                                             *)

ESC == "ESC"
BSL == "BSL"
NL == "NL"

\* line 215: the literal prefix  \033_Gi=
RespPrefix == <<ESC, "_", "G", "i", "=">>

\* line 215: the character class [1|2]
CodeIdClass == {"1", "|", "2"}

\* line 215: (.+?) takes at least one character
CodeMinPayload == 1

OKPayload == <<"O", "K">>

\* (.+?)\033\\ from position `from`: the position of the ESC of the nearest
\* terminator that leaves at least minLen characters, none of them a
\* newline, before it; 0 when there is none
TerminatorAfter(buf, from, minLen) ==
    LET ends == {e \in (from + minLen)..(Len(buf) - 1) :
                    /\ buf[e] = ESC /\ buf[e + 1] = BSL
                    /\ \A q \in from..(e - 1) : buf[q] # NL}
    IN  IF ends = {} THEN 0 ELSE CHOOSE e \in ends : \A x \in ends : e <= x

\* the match of the pattern that starts at position p, if there is one
MatchAt(buf, p, idClass, minLen) ==
    LET e == IF /\ p + 6 <= Len(buf)
                /\ SubSeq(buf, p, p + 4) = RespPrefix
                /\ buf[p + 5] \in idClass
                /\ buf[p + 6] = ";"
             THEN TerminatorAfter(buf, p + 7, minLen)
             ELSE 0
    IN  IF e = 0 THEN [ok |-> FALSE, id |-> "", payload |-> <<>>, next |-> p + 1]
        ELSE [ok |-> TRUE, id |-> buf[p + 5],
              payload |-> SubSeq(buf, p + 7, e - 1), next |-> e + 2]

RECURSIVE FindIter(_, _, _, _)
\* re.finditer: the matches from position p on, left to right, not overlapping
FindIter(buf, p, idClass, minLen) ==
    IF p > Len(buf) THEN <<>>
    ELSE LET m == MatchAt(buf, p, idClass, minLen)
         IN  IF m.ok THEN <<m>> \o FindIter(buf, m.next, idClass, minLen)
             ELSE FindIter(buf, p + 1, idClass, minLen)

\* lines 217-218: the probe id of a match, 0 for a match that is skipped
\* (tokens are strings, so the test is on the string)
IidOf(m) == IF m.id = "1" THEN 1 ELSE IF m.id = "2" THEN 2 ELSE 0

RECURSIVE RecordAll(_, _)
\* lines 215-220: the loop over the matches
RecordAll(ms, resp) ==
    IF ms = <<>> THEN resp
    ELSE LET m == Head(ms)
             iid == IidOf(m)
         IN  RecordAll(Tail(ms),
                       IF iid # 0 /\ iid \notin DOMAIN resp
                       THEN Put(resp, iid, m.payload = OKPayload)
                       ELSE resp)

\* lines 214-220
parse_responses(buf, resp) ==
    RecordAll(FindIter(buf, 1, CodeIdClass, CodeMinPayload), resp)

\* the loop never stops for data
MoreNeededAlways(resp) == TRUE

\* line 226
more_needed(resp) == 1 \notin DOMAIN resp \/ 2 \notin DOMAIN resp

\* responses.get(iid) taken as a truth value
GetOK(resp, iid) == iid \in DOMAIN resp /\ resp[iid]

\* has_files is taken from the answer to probe 1
HasFilesFromProbe1(resp) == GetOK(resp, 1)

\* line 237: bool(responses.get(2))
HasFilesOf(resp) == GetOK(resp, 2)

\* line 238: responses.get(1, False)
ResultOf(resp) == GetOK(resp, 1)

---------------------------------------------------------------------------
(* detect_support: the exchange                                            *)

\* "abcd"
ProbeBytes == <<97, 98, 99, 100>>

\* the name of the NamedTemporaryFile of line 228: "/tmp/p"
ProbeTmpPath == <<47, 116, 109, 112, 47, 112>>

\* line 230
Probe1Cmd == [a |-> "q", s |-> 1, v |-> 1, i |-> 1]

\* line 231
Probe2Cmd == [a |-> "q", s |-> 1, v |-> 1, i |-> 2, t |-> "f"]

IsProbe(e) == IsFrame(e) /\ "a" \in DOMAIN e.cmd /\ e.cmd["a"] = "q"

\* lines 207-232: the progress message, the temporary file and the two
\* probes; the terminal queues its answer to them
detect_support_begin ==
    /\ pc = "detect_support"
    /\ received' = <<>>
    /\ responses' = EmptyCmd
    /\ fs' = Put(fs, ProbeTmpPath, ProbeBytes)
    /\ out' = write_gr_cmd(
                 write_gr_cmd(IF silent THEN out
                              ELSE Append(out, Text("Checking for graphics", <<>>)),
                              Probe1Cmd, standard_b64encode(ProbeBytes)),
                 Probe2Cmd, standard_b64encode(ProbeTmpPath))
    /\ tty_in' = tty_in \o (IF tty_script = <<>> THEN <<>> ELSE Head(tty_script))
    /\ tty_script' = IF tty_script = <<>> THEN <<>> ELSE Tail(tty_script)
    /\ pc' = "recv"
    /\ UNCHANGED <<cmd, data, ret, wc_cmd0, wc_data0, silent, has_files, ds_result, calls,
                   mainVars, worldVars>>

\* line 233, lines 222-226: io.recv reads what the terminal sent, in pieces
\* of any size, and hands each piece to more_needed until it returns False
recv_data ==
    /\ pc = "recv"
    /\ tty_in # <<>>
    /\ \E k \in (1..Min(MaxRecv, Len(tty_in))) \cup {Len(tty_in)} :
          LET buf  == received \o Take(tty_in, k)
              resp == parse_responses(buf, responses)
          IN  /\ received' = buf
              /\ responses' = resp
              /\ tty_in' = Drop(tty_in, k)
              /\ pc' = IF more_needed(resp) THEN "recv" ELSE "detect_finally"
    /\ UNCHANGED <<chunkVars, silent, has_files, ds_result, calls, tty_script, fs, mainVars, worldVars>>

\* line 233: the deadline (wait_for) passes before more_needed returned False
recv_timeout ==
    /\ pc = "recv"
    /\ pc' = "detect_finally"
    /\ UNCHANGED <<chunkVars, detectVars, ttyVars, fs, mainVars, worldVars>>

\* lines 228-238: the with blocks are left (the terminal device is released
\* and what it still holds unread is not this call's input any more, the
\* temporary file goes), the screen is cleared, the facts are derived
detect_support_return ==
    /\ pc = "detect_finally"
    /\ fs' = Remove(fs, ProbeTmpPath)
    /\ tty_in' = <<>>
    /\ out' = IF silent THEN out ELSE Append(out, Text("ESC[J", <<>>))
    /\ has_files' = HasFilesOf(responses)
    /\ ds_result' = ResultOf(responses)
    /\ calls' = calls + 1
    /\ pc' = ret
    /\ UNCHANGED <<cmd, data, ret, wc_cmd0, wc_data0, received, responses, silent, tty_script,
                   mainVars, worldVars>>

---------------------------------------------------------------------------
(* A harness that calls detect_support                                     *)

Resp(id, payload) == RespPrefix \o <<id, ";">> \o payload \o <<ESC, BSL>>

\* what a terminal may send: answers (OK, an error, nothing between the
\* delimiters, an error with a line break) under the ids 1, 2 and |, and
\* other bytes
Pieces ==
    {Resp(id, p) : id \in {"1", "2"},
                   p \in {OKPayload, <<"E">>, <<>>, <<"E", NL>>}}
    \cup {Resp("|", <<"E">>), <<"x">>}

RECURSIVE Streams(_)
Streams(n) ==
    IF n = 0 THEN {<<>>}
    ELSE LET shorter == Streams(n - 1)
         IN  shorter \cup {s \o p : s \in shorter, p \in Pieces}

InitDetect ==
    /\ pc = "detect_support"
    /\ ret = "ds_done"
    /\ cmd = EmptyCmd /\ data = <<>> /\ out = <<>>
    /\ wc_cmd0 = EmptyCmd /\ wc_data0 = <<>>
    /\ received = <<>> /\ responses = EmptyCmd
    /\ silent \in BOOLEAN
    /\ has_files = FALSE
    /\ ds_result = FALSE
    /\ calls = 0
    /\ tty_in = <<>>
    /\ tty_script \in {<<s>> : s \in Streams(MaxPieces)}
    /\ MainIdle

NextDetect ==
    \/ detect_support_begin
    \/ recv_data
    \/ recv_timeout
    \/ detect_support_return

SpecDetect == InitDetect /\ [][NextDetect]_vars

\* the program keeps running, and the timer of io.recv keeps running: the
\* deadline arrives unless the loop has ended before
SpecDetectFair ==
    /\ SpecDetect
    /\ WF_vars(detect_support_begin)
    /\ WF_vars(recv_timeout)
    /\ WF_vars(detect_support_return)

\* a caller asks again
detect_support_again ==
    /\ pc = "ds_done"
    /\ calls < MaxCalls
    /\ pc' = "detect_support"
    /\ UNCHANGED <<chunkVars, detectVars, ttyVars, fs, mainVars, worldVars>>

\* what a terminal that implements the protocol sends: at most one answer
\* per probe, OK or an error, in either order
Answers ==
    LET ps == {OKPayload, <<"E">>}
    IN  {<<>>}
        \cup {Resp(id, p) : id \in {"1", "2"}, p \in ps}
        \cup {Resp("1", p) \o Resp("2", q) : p \in ps, q \in ps}
        \cup {Resp("2", q) \o Resp("1", p) : p \in ps, q \in ps}

InitDetectCalls ==
    /\ pc = "detect_support"
    /\ ret = "ds_done"
    /\ cmd = EmptyCmd /\ data = <<>> /\ out = <<>>
    /\ wc_cmd0 = EmptyCmd /\ wc_data0 = <<>>
    /\ received = <<>> /\ responses = EmptyCmd
    /\ silent \in BOOLEAN
    /\ has_files = FALSE
    /\ ds_result = FALSE
    /\ calls = 0
    /\ tty_in = <<>>
    /\ tty_script \in {<<s, t>> : s \in Answers, t \in Answers}
    /\ MainIdle

NextDetectCalls ==
    \/ NextDetect
    \/ detect_support_again

SpecDetectCalls == InitDetectCalls /\ [][NextDetectCalls]_vars

---------------------------------------------------------------------------
(* Claims about detect_support                                             *)

\* the response frames of the documented pattern, ESC _ G i = (1|2) ; (.*?) ESC \ :
\* the first one of each id decides that id's recorded value
EarliestFrames(buf) == RecordAll(FindIter(buf, 1, {"1", "2"}, 0), EmptyCmd)

\* C4: whatever the terminal sends and however it is split across reads,
\* the value recorded for each probe id is the OK/not-OK outcome of the
\* earliest complete response frame for that id in the accumulated buffer.
\* (Refuted by the code: its pattern also takes "|" as an id and needs a
\* non-empty payload, so a frame can be missed or swallowed.)
C4_RecordsEarliestFrame ==
    pc \in {"recv", "detect_finally", "ds_done"} =>
        responses = EarliestFrames(received)

\* C4, second half (holds): during one call a recorded value never changes
C4_RecordedValueIsKept ==
    [][pc = "recv" =>
          \A id \in DOMAIN responses :
              id \in DOMAIN responses' /\ responses'[id] = responses[id]]_vars

BothAnswered == {1, 2} \subseteq DOMAIN responses

\* C5: every call of detect_support returns; the receive loop asks for more
\* input only while an id is still unanswered, it stops for data only when
\* both ids are answered and otherwise at the deadline, keeping what was
\* collected; with nothing received both facts are false.
C5_DetectSupportReturns ==
    /\ <>(pc = "ds_done")
    /\ [](pc = "recv" => ~BothAnswered)
    /\ [][(pc = "recv" /\ pc' # "recv" /\ received' # received) => BothAnswered']_vars
    /\ []((pc = "ds_done" /\ received = <<>>) => (~ds_result /\ ~has_files))

\* the loop has ended at the deadline, with only probe 1 answered and more
\* input still unread
C5_Witness ==
    /\ pc = "detect_finally"
    /\ tty_in # <<>>
    /\ DOMAIN responses = {1}
    /\ responses[1]

\* C6: after detect_support returns, its return value is true exactly when
\* the recorded response to probe 1 is OK, and has_files is true exactly when
\* the recorded response to probe 2 is OK, each independently of the other.
C6_FactsFollowResponses ==
    pc = "ds_done" =>
        /\ ds_result = (1 \in DOMAIN responses /\ responses[1])
        /\ has_files = (2 \in DOMAIN responses /\ responses[2])

\* probe 2 was answered first, with an error, then probe 1 with OK
C6_Witness ==
    /\ pc = "ds_done"
    /\ received = Resp("2", <<"E">>) \o Resp("1", OKPayload)
    /\ ds_result
    /\ ~has_files

\* C7: once detect_support has returned a successful result, a further call
\* writes no probe command and does not read from the terminal.
\* (Refuted by the code: nothing in detect_support consults an earlier
\* result; every call probes and reads again.)
C7_SecondCallUsesCache ==
    [][(calls >= 1 /\ ds_result) => (Frames' = Frames /\ pc' # "recv")]_vars

---------------------------------------------------------------------------
(* Files, images and the collaborators of process                          *)

\* "/h", the working directory
Cwd == <<47, 104>>

\* os.path.abspath
abspath(p) == IF p # <<>> /\ p[1] = 47 THEN p ELSE Cwd \o <<47>> \o p

\* an image file: a format byte, the colour mode, the pixel size
ImageFile(fmt, mode, w, h) ==
    <<IF fmt = "png" THEN 137 ELSE 255, IF mode = "rgb" THEN 3 ELSE 4, w, h>>

\* identify(path): the metadata, or OpenFailed when the file cannot be read
\* (a first byte of 254 is a JPEG whose data is malformed further on)
identify(f, path) ==
    IF path \notin DOMAIN f \/ Len(f[path]) # 4 \/ f[path][1] \notin {137, 254, 255}
    THEN [ok |-> FALSE, fmt |-> "", mode |-> "", width |-> 0, height |-> 0]
    ELSE [ok |-> TRUE,
          fmt |-> IF f[path][1] = 137 THEN "png" ELSE "jpeg",
          mode |-> IF f[path][2] = 3 THEN "rgb" ELSE "rgba",
          width |-> f[path][3], height |-> f[path][4]]

\* the files the user can name: "a" (a small PNG), "/b" (a PNG wider than
\* the screen), "c" (a small JPEG); "d" does not exist
PathPng == <<97>>
PathBigPng == <<47, 98>>
PathJpeg == <<99>>
PathMissing == <<100>>

UserFiles ==
    Put(Put(Put(EmptyCmd, PathPng, ImageFile("png", "rgba", 2, 1)),
            PathBigPng, ImageFile("png", "rgb", 10, 1)),
        PathJpeg, ImageFile("jpeg", "rgb", 2, 1))

\* "/tmp/s", the NamedTemporaryFile of line 316
StdinTmpPath == <<47, 116, 109, 112, 47, 115>>

\* "/tmp/c<n>", the file convert writes for the n-th item
ConvOutPath(n) == <<47, 116, 109, 112, 47, 99, 48 + n>>

\* convert raises ConvertFailed on malformed image data
ConvertFails(f, path) == f[path][1] = 254

Max(a, b) == IF a > b THEN a ELSE b

\* convert: the size of the image fitted into the box bw x bh
ConvertSize(w, h, bw, bh, scale_up) ==
    IF w <= bw /\ h <= bh /\ ~scale_up THEN <<w, h>>
    ELSE IF bw * h <= bh * w THEN <<Max(1, bw), Max(1, (h * bw) \div w)>>
    ELSE <<Max(1, (w * bh) \div h), Max(1, bh)>>

\* convert: the raw pixel buffer it writes, 3 or 4 bytes per pixel
RawPixels(w, h, mode) ==
    [i \in 1..(w * h * (IF mode = "rgb" THEN 3 ELSE 4)) |-> (i * 53 + w) % 256]

---------------------------------------------------------------------------
(* The placement calculator                                                *)

\* int(ceil(a / b)) for b > 0
CeilDiv(a, b) == (a + b - 1) \div b

\* the offset is the remainder itself, not what is left of the cell
OffsetIsRemainder(width, cell_width, align) ==
    IF align = "left" THEN 0
    ELSE LET extra_pixels == width % cell_width
         IN  IF align = "right" THEN extra_pixels ELSE extra_pixels \div 2

\* lines 100-108
calculate_in_cell_x_offset(width, cell_width, align) ==
    IF align = "left" THEN 0
    ELSE LET extra_pixels == width % cell_width
         IN  IF extra_pixels = 0 THEN 0
             ELSE IF align = "right" THEN cell_width - extra_pixels
             ELSE (cell_width - extra_pixels) \div 2

\* center is not halved
ExtraCellsNoHalving(total, needed, align) ==
    IF align = "left" THEN 0 ELSE total - needed

\* lines 122-126 and 137-141
ExtraCells(total, needed, align) ==
    IF align = "center" THEN (total - needed) \div 2
    ELSE IF align = "right" THEN total - needed
    ELSE 0

\* lines 111-128: the Command and stdout after set_cursor
set_cursor(o, c, width, height, align, scr) ==
    LET cw == scr.width \div scr.cols
        num_of_cells_needed == CeilDiv(width, cw)
        ch == scr.height \div scr.rows
        extra_cells == ExtraCells(scr.cols, num_of_cells_needed, align)
    IN  IF num_of_cells_needed > scr.cols
        THEN [cmd |-> Put(Put(c, "c", scr.cols), "r", CeilDiv(height, ch)), out |-> o]
        ELSE [cmd |-> Put(c, "X", calculate_in_cell_x_offset(width, cw, align)),
              out |-> IF extra_cells # 0
                      THEN Append(o, Text("spaces", <<extra_cells>>)) ELSE o]

\* the column is counted from 0
SetCursorForPlaceZeroBased(o, place, c, width, height, align, scr) ==
    LET x == place.left
        cw == scr.width \div scr.cols
        num_of_cells_needed == CeilDiv(width, cw)
        extra_cells == ExtraCells(place.width, num_of_cells_needed, align)
    IN  [cmd |-> Put(c, "X", calculate_in_cell_x_offset(width, cw, align)),
         out |-> Append(o, Text("ESC[row;colH", <<place.top + 1, x + extra_cells>>))]

\* lines 131-142: the Command and stdout after set_cursor_for_place
set_cursor_for_place(o, place, c, width, height, align, scr) ==
    LET x == place.left + 1
        cw == scr.width \div scr.cols
        num_of_cells_needed == CeilDiv(width, cw)
        extra_cells == ExtraCells(place.width, num_of_cells_needed, align)
    IN  [cmd |-> Put(c, "X", calculate_in_cell_x_offset(width, cw, align)),
         out |-> Append(o, Text("ESC[row;colH", <<place.top + 1, x + extra_cells>>))]

---------------------------------------------------------------------------
(* process and show                                                        *)

\* screen_size(): the cached sample, taken afresh when the dirty flag is set
screen_size(cache, dirty, t) == IF dirty THEN t ELSE cache

\* the run ends: raise SystemExit, or an exception nobody catches
Exit(code) ==
    /\ exit_code' = code
    /\ pc' = "exit"

\* lines 180-183
NeedsScaling(m, a, scr) ==
    \/ IF a.place.given THEN m.width * scr.cols > a.place.width * scr.width
       ELSE m.width > scr.width
    \/ IF a.place.given THEN m.height * scr.rows > a.place.height * scr.height
       ELSE m.height > 10 * m.height
    \/ a.scale_up

\* lines 180-181, as whole pixels
BoxWidth(a, scr) ==
    IF a.place.given THEN (a.place.width * scr.width) \div scr.cols ELSE scr.width

BoxHeight(m, a, scr) ==
    IF a.place.given THEN (a.place.height * scr.height) \div scr.rows ELSE 10 * m.height

\* every transfer is announced as a temporary file
TransmitModeAlwaysTemp(is_tempfile) == "t"

\* the two transmit modes are swapped
TransmitModeSwapped(is_tempfile) == IF is_tempfile THEN "f" ELSE "t"

\* line 186
TransmitModeOf(is_tempfile) == IF is_tempfile THEN "t" ELSE "f"

\* only files that are not temporary go by path
ByPathUnlessTemporary(hf, transmit_mode) == hf /\ transmit_mode # "t"

\* line 164: the transfer goes by path
ByPath(hf, transmit_mode) == hf

\* every exception lets the loop go on
CaughtAlways(exc) == TRUE

\* lines 325-330: the exception that is collected, the loop going on
Caught(exc) == exc = "OpenFailed"

\* an exception raised inside process reaches the try of lines 314-330
Raise(exc) ==
    IF Caught(exc)
    THEN /\ errors' = Append(errors, loc.path)
         /\ pc' = "main_loop"
         /\ UNCHANGED exit_code
    ELSE /\ Exit(exc)
         /\ UNCHANGED errors

\* lines 177-192; the exceptions are caught at lines 325-330
process ==
    /\ pc = "process"
    /\ processed' = Append(processed, loc.path)
    /\ LET m == identify(fs, loc.path)
           scr == screen_size(ss, changed, term)
       IN  IF ~magick
           THEN /\ Raise("NoImageMagick")
                /\ UNCHANGED <<fs, loc, ss, changed>>
           ELSE IF ~m.ok
           THEN /\ Raise("OpenFailed")
                /\ UNCHANGED <<fs, loc, ss, changed>>
           ELSE /\ ss' = scr
                /\ changed' = FALSE
                /\ IF m.fmt = "png" /\ ~NeedsScaling(m, args, scr)
                   THEN /\ loc' = [loc EXCEPT !.outfile = loc.path,
                                              !.transmit_mode = TransmitModeOf(loc.is_tempfile),
                                              !.fmt = FmtPNG,
                                              !.width = m.width, !.height = m.height,
                                              !.ss = scr]
                        /\ pc' = "show"
                        /\ UNCHANGED <<fs, errors, exit_code>>
                   ELSE IF ConvertFails(fs, loc.path)
                   THEN /\ Raise("ConvertFailed")
                        /\ UNCHANGED <<fs, loc>>
                   ELSE LET size == ConvertSize(m.width, m.height, BoxWidth(args, scr),
                                                BoxHeight(m, args, scr), args.scale_up)
                            outfile == ConvOutPath(nproc)
                        IN  /\ fs' = Put(fs, outfile, RawPixels(size[1], size[2], m.mode))
                            /\ loc' = [loc EXCEPT !.outfile = outfile,
                                                  !.transmit_mode = "t",
                                                  !.fmt = IF m.mode = "rgb" THEN 24 ELSE 32,
                                                  !.width = size[1], !.height = size[2],
                                                  !.converted = TRUE,
                                                  !.ss = scr]
                            /\ pc' = "show"
                            /\ UNCHANGED <<errors, exit_code>>
    /\ UNCHANGED <<chunkVars, detectVars, ttyVars, args, items, nproc, worldVars>>

\* lines 159-163; set_cursor and set_cursor_for_place query the screen size
show ==
    /\ pc = "show"
    /\ ss' = screen_size(ss, changed, term)
    /\ changed' = FALSE
    /\ LET c == [a |-> "T", f |-> loc.fmt, s |-> loc.width, v |-> loc.height]
           r == IF args.place.given
                THEN set_cursor_for_place(out, args.place, c, loc.width, loc.height,
                                          args.align, ss')
                ELSE set_cursor(out, c, loc.width, loc.height, args.align, ss')
       IN  /\ cmd' = r.cmd
           /\ out' = r.out
    /\ pc' = "show_transfer"
    /\ UNCHANGED <<data, ret, wc_cmd0, wc_data0, detectVars, ttyVars, fs, args, items, errors,
                   exit_code, loc, nproc, processed, worldVars>>

\* lines 164-174
show_transfer ==
    /\ pc = "show_transfer"
    /\ IF ByPath(has_files, loc.transmit_mode)
       THEN /\ out' = write_gr_cmd(out, Put(cmd, "t", loc.transmit_mode),
                                   standard_b64encode(abspath(loc.outfile)))
            /\ cmd' = Put(cmd, "t", loc.transmit_mode)
            /\ pc' = "process_end"
            /\ UNCHANGED <<data, ret, wc_cmd0, wc_data0, fs>>
       ELSE LET d == fs[loc.outfile]
                c == IF loc.fmt = FmtPNG THEN Put(cmd, "S", Len(d)) ELSE cmd
            IN  /\ fs' = IF loc.transmit_mode = "t" THEN Remove(fs, loc.outfile) ELSE fs
                /\ cmd' = c
                /\ data' = d
                /\ wc_cmd0' = c
                /\ wc_data0' = d
                /\ ret' = "process_end"
                /\ pc' = "write_chunked"
                /\ UNCHANGED out
    /\ UNCHANGED <<detectVars, ttyVars, mainVars, worldVars>>

\* lines 194-195
process_end ==
    /\ pc = "process_end"
    /\ out' = IF args.place.given THEN out ELSE Append(out, Text("newline", <<>>))
    /\ pc' = "main_loop"
    /\ UNCHANGED <<cmd, data, ret, wc_cmd0, wc_data0, detectVars, ttyVars, fs, mainVars, worldVars>>

---------------------------------------------------------------------------
(* The --place option                                                      *)

\* the characters of a --place string are one-character strings
Digits == <<"0", "1", "2", "3", "4", "5", "6", "7", "8", "9">>

DigitVal(ch) == (CHOOSE i \in 1..10 : Digits[i] = ch) - 1

IsDigit(ch) == \E i \in 1..10 : Digits[i] = ch

RECURSIVE DigitsVal(_)
DigitsVal(s) ==
    IF s = <<>> THEN 0
    ELSE DigitsVal(SubSeq(s, 1, Len(s) - 1)) * 10 + DigitVal(s[Len(s)])

\* int(s): an optional sign and at least one digit, or ValueError
int(s) ==
    LET signed == s # <<>> /\ s[1] \in {"-", "+"}
        body == IF signed THEN Tail(s) ELSE s
        ok == body # <<>> /\ \A i \in 1..Len(body) : IsDigit(body[i])
    IN  [ok |-> ok,
         v |-> IF ~ok THEN 0
               ELSE IF signed /\ s[1] = "-" THEN 0 - DigitsVal(body) ELSE DigitsVal(body)]

\* the index of the first ch in s, 0 when there is none
RECURSIVE IndexOf(_, _, _)
IndexOf(s, ch, from) ==
    IF from > Len(s) THEN 0
    ELSE IF s[from] = ch THEN from
    ELSE IndexOf(s, ch, from + 1)

\* s.split(ch)
RECURSIVE split(_, _)
split(s, ch) ==
    LET i == IndexOf(s, ch, 1)
    IN  IF i = 0 THEN <<s>>
        ELSE <<SubSeq(s, 1, i - 1)>> \o split(SubSeq(s, i + 1, Len(s)), ch)

\* s.split(ch, 1)
split1(s, ch) ==
    LET i == IndexOf(s, ch, 1)
    IN  IF i = 0 THEN <<s>>
        ELSE <<SubSeq(s, 1, i - 1), SubSeq(s, i + 1, Len(s))>>

\* line 243 or 244: a, b = map(int, part.split('x')), or ValueError
IntPair(part) ==
    LET ps == split(part, "x")
    IN  IF Len(ps) # 2 THEN [ok |-> FALSE, a |-> 0, b |-> 0]
        ELSE [ok |-> int(ps[1]).ok /\ int(ps[2]).ok, a |-> int(ps[1]).v, b |-> int(ps[2]).v]

\* lines 241-246; ok is FALSE when an exception is raised
parse_place(raw) ==
    IF raw = <<>> THEN [ok |-> TRUE, place |-> NoPlace]
    ELSE LET halves == split1(raw, "@")
         IN  IF Len(halves) # 2 THEN [ok |-> FALSE, place |-> NoPlace]
             ELSE LET wh == IntPair(halves[1])
                      lt == IntPair(halves[2])
                  IN  IF ~wh.ok \/ ~lt.ok THEN [ok |-> FALSE, place |-> NoPlace]
                      ELSE [ok |-> TRUE,
                            place |-> [given |-> TRUE, width |-> wh.a, height |-> wh.b,
                                       left |-> lt.a, top |-> lt.b]]

---------------------------------------------------------------------------
(* Directories and scan                                                    *)

\* the directories the user can name: "t" holds a.png, b.txt and the
\* directory sub, which holds c.jpg; "e" holds b.txt only
PathTree == <<116>>
PathSub == <<116, 47, 115, 117, 98>>
PathEmptyDir == <<101>>
NameAPng == <<97, 46, 112, 110, 103>>
NameBTxt == <<98, 46, 116, 120, 116>>
NameCJpg == <<99, 46, 106, 112, 103>>
NameSub == <<115, 117, 98>>

Dirs ==
    Put(Put(Put(EmptyCmd,
                PathTree, [dirnames |-> <<NameSub>>, filenames |-> <<NameAPng, NameBTxt>>]),
            PathSub, [dirnames |-> <<>>, filenames |-> <<NameCJpg>>]),
        PathEmptyDir, [dirnames |-> <<>>, filenames |-> <<NameBTxt>>])

\* os.path.isdir
isdir(path) == path \in DOMAIN Dirs

\* os.path.join
join(a, b) == a \o <<47>> \o b

\* the index of the last "." of a file name, 0 when there is none
RECURSIVE LastDot(_, _)
LastDot(name, i) ==
    IF i = 0 THEN 0 ELSE IF name[i] = 46 THEN i ELSE LastDot(name, i - 1)

\* mimetypes.guess_type(f)[0], from the extension: <<major, minor>>, <<>> for None
guess_type(name) ==
    LET d == LastDot(name, Len(name))
        ext == IF d = 0 THEN <<>> ELSE SubSeq(name, d + 1, Len(name))
    IN  IF ext = <<112, 110, 103>> THEN <<"image", "png">>
        ELSE IF ext = <<106, 112, 103>> THEN <<"image", "jpeg">>
        ELSE IF ext = <<116, 120, 116>> THEN <<"text", "plain">>
        ELSE <<>>

\* lines 200-203: the image files among the file names of one directory
RECURSIVE ScanFiles(_, _)
ScanFiles(dirpath, filenames) ==
    IF filenames = <<>> THEN <<>>
    ELSE LET f == Head(filenames)
             mt == guess_type(f)
         IN  (IF mt # <<>> /\ mt[1] = "image" THEN <<join(dirpath, f)>> ELSE <<>>)
             \o ScanFiles(dirpath, Tail(filenames))

\* lines 198-203: os.walk goes top down, a directory before its subdirectories
RECURSIVE scan(_)
RECURSIVE ScanDirs(_, _)
scan(d) == ScanFiles(d, Dirs[d].filenames) \o ScanDirs(d, Dirs[d].dirnames)

ScanDirs(d, dirnames) ==
    IF dirnames = <<>> THEN <<>>
    ELSE scan(join(d, Head(dirnames))) \o ScanDirs(d, Tail(dirnames))

---------------------------------------------------------------------------
(* main                                                                    *)

\* lines 278-289: the screen size is queried and the place is parsed
main_start ==
    /\ pc = "main"
    /\ ss' = screen_size(ss, changed, term)
    /\ changed' = FALSE
    /\ IF ss'.width = 0
       THEN /\ Exit("Terminal does not support reporting screen sizes")
            /\ UNCHANGED args
       ELSE LET p == parse_place(args.raw)
            IN  IF ~p.ok
                THEN /\ Exit("Not a valid place specification")
                     /\ UNCHANGED args
                ELSE /\ args' = [args EXCEPT !.place = p.place]
                     /\ pc' = "main_mode"
                     /\ UNCHANGED exit_code
    /\ UNCHANGED <<chunkVars, detectVars, ttyVars, fs, items, errors, loc, nproc, processed,
                   worldVars>>

\* lines 296-300: the transfer mode
main_mode ==
    /\ pc = "main_mode"
    /\ IF args.transfer_mode = "detect"
       THEN /\ pc' = "detect_support"
            /\ ret' = "main_detected"
            /\ silent' = FALSE
            /\ UNCHANGED has_files
       ELSE /\ has_files' = (args.transfer_mode = "file")
            /\ pc' = "main_items"
            /\ UNCHANGED <<ret, silent>>
    /\ UNCHANGED <<cmd, data, out, wc_cmd0, wc_data0, received, responses, ds_result, calls,
                   ttyVars, fs, mainVars, worldVars>>

\* lines 297-298: detect_support has returned (its locals are gone)
main_detected ==
    /\ pc = "main_detected"
    /\ received' = <<>>
    /\ responses' = EmptyCmd
    /\ IF ~ds_result
       THEN Exit("This terminal emulator does not support the graphics protocol")
       ELSE /\ pc' = "main_items"
            /\ UNCHANGED exit_code
    /\ UNCHANGED <<chunkVars, silent, has_files, ds_result, calls, ttyVars, fs, ss, changed,
                   args, items, errors, loc, nproc, processed, worldVars>>

\* lines 301-311
main_items ==
    /\ pc = "main_items"
    /\ IF items = <<>>
       THEN /\ Exit("You must specify at least one file to cat")
            /\ UNCHANGED out
       ELSE IF args.place.given
               /\ (Len(items) > 1 \/ (~items[1].is_bytes /\ isdir(items[1].v)))
       THEN /\ Exit("The --place option can only be used with a single image")
            /\ UNCHANGED out
       ELSE /\ out' = IF args.place.given THEN Append(out, Text("ESC7", <<>>)) ELSE out
            /\ pc' = "main_loop"
            /\ UNCHANGED exit_code
    /\ UNCHANGED <<cmd, data, ret, wc_cmd0, wc_data0, detectVars, ttyVars, fs, ss, changed,
                   args, items, errors, loc, nproc, processed, worldVars>>

\* lines 312-324: the next item; image data from stdin goes to a temporary
\* file.  For a directory, line 322 calls process(item, args) for the first
\* file scan yields: the call lacks the argument is_tempfile, the TypeError
\* is caught by no except clause and ends the run.
main_next_item ==
    /\ pc = "main_loop"
    /\ items # <<>>
    /\ LET item == Head(items)
           path == IF item.is_bytes THEN StdinTmpPath ELSE item.v
       IN  /\ fs' = IF item.is_bytes THEN Put(fs, StdinTmpPath, item.v) ELSE fs
           /\ loc' = [NoLoc EXCEPT !.path = path,
                                   !.is_tempfile = item.is_bytes,
                                   !.base = Len(out)]
           /\ IF isdir(path)
              THEN IF scan(path) = <<>>
                   THEN pc' = "main_loop" /\ UNCHANGED exit_code
                   ELSE Exit("TypeError")
              ELSE pc' = "process" /\ UNCHANGED exit_code
    /\ items' = Tail(items)
    /\ nproc' = nproc + 1
    /\ UNCHANGED <<chunkVars, detectVars, ttyVars, ss, changed, args, errors, processed,
                   worldVars>>

\* lines 331-337
main_finish ==
    /\ pc = "main_loop"
    /\ items = <<>>
    /\ out' = IF args.place.given THEN Append(out, Text("ESC8", <<>>)) ELSE out
    /\ Exit(IF errors = <<>> THEN "0" ELSE "1")
    /\ UNCHANGED <<cmd, data, ret, wc_cmd0, wc_data0, detectVars, ttyVars, fs, ss, changed,
                   args, items, errors, loc, nproc, processed, worldVars>>

---------------------------------------------------------------------------
(* A run of main: up to MaxItems files, image data on stdin or not, every   *)
(* option, a terminal that answers the probes in several ways.  The        *)
(* terminal is not resized and ImageMagick is installed (SpecPlace and     *)
(* SpecBatch cover those).                                                 *)

BytesItem(content) == [is_bytes |-> TRUE, v |-> content]

PathItem(path) == [is_bytes |-> FALSE, v |-> path]

\* what stdin holds when it is not a terminal (lines 272-274)
StdinItems == {BytesItem(ImageFile("png", "rgba", 2, 1)), BytesItem(ImageFile("jpeg", "rgb", 2, 1))}

PathItems == {PathItem(x) : x \in {PathPng, PathBigPng, PathJpeg, PathMissing}}

\* --place 2x1@1x1: 2x1 cells at column 1, row 1
RawAPlace == <<"2", "x", "1", "@", "1", "x", "1">>

\* cells of 2x2 pixels
ScreenSizes == {[width |-> 8, height |-> 4, cols |-> 4, rows |-> 2], NoScreen}

\* how the terminal answers the probes of main
MainAnswers ==
    {<<>>,
     Resp("1", OKPayload) \o Resp("2", OKPayload),
     Resp("1", OKPayload) \o Resp("2", <<"E">>),
     Resp("2", OKPayload) \o Resp("1", <<"E">>)}

Init ==
    /\ pc = "main"
    /\ ret = ""
    /\ cmd = EmptyCmd /\ data = <<>> /\ out = <<>>
    /\ wc_cmd0 = EmptyCmd /\ wc_data0 = <<>>
    /\ received = <<>> /\ responses = EmptyCmd
    /\ silent = FALSE
    /\ has_files = FALSE
    /\ ds_result = FALSE
    /\ calls = 0
    /\ tty_in = <<>>
    /\ fs = UserFiles
    /\ ss = NoScreen
    /\ changed = TRUE
    /\ term \in ScreenSizes
    /\ magick = TRUE
    /\ processed = <<>>
    /\ args \in [align : {"center", "left", "right"}, raw : {<<>>, RawAPlace},
                 place : {NoPlace}, scale_up : BOOLEAN,
                 transfer_mode : {"detect", "file", "stream"}]
    /\ tty_script \in IF args.transfer_mode = "detect"
                      THEN {<<a>> : a \in MainAnswers} ELSE {<<>>}
    /\ \E first \in {<<>>} \cup {<<i>> : i \in StdinItems} :
          items \in {first \o rest : rest \in SeqsUpTo(PathItems, MaxItems)}
    /\ errors = <<>>
    /\ exit_code = ""
    /\ loc = NoLoc
    /\ nproc = 0

Next ==
    \/ main_start
    \/ main_mode
    \/ detect_support_begin
    \/ recv_data
    \/ recv_timeout
    \/ detect_support_return
    \/ main_detected
    \/ main_items
    \/ main_next_item
    \/ process
    \/ show
    \/ show_transfer
    \/ write_chunked_enter
    \/ write_chunked_frame
    \/ write_chunked_return
    \/ process_end
    \/ main_finish

Spec == Init /\ [][Next]_vars

---------------------------------------------------------------------------
(* A run of main on a batch of files and directories, some of them bad     *)

\* "x", a JPEG that identify accepts and convert fails on
PathCorrupt == <<120>>

BatchFiles == Put(UserFiles, PathCorrupt, <<254, 3, 2, 1>>)

BatchItems ==
    {PathItem(x) : x \in {PathPng, PathJpeg, PathMissing, PathCorrupt, PathTree, PathEmptyDir}}

InitBatch ==
    /\ pc = "main"
    /\ ret = ""
    /\ cmd = EmptyCmd /\ data = <<>> /\ out = <<>>
    /\ wc_cmd0 = EmptyCmd /\ wc_data0 = <<>>
    /\ DetectIdle
    /\ fs = BatchFiles
    /\ ss = NoScreen
    /\ changed = TRUE
    /\ term = [width |-> 8, height |-> 4, cols |-> 4, rows |-> 2]
    /\ magick \in BOOLEAN
    /\ processed = <<>>
    /\ args \in [align : {"left"}, raw : {<<>>}, place : {NoPlace}, scale_up : {FALSE},
                 transfer_mode : {"file", "stream"}]
    /\ items \in SeqsUpTo(BatchItems, MaxBatch)
    /\ errors = <<>>
    /\ exit_code = ""
    /\ loc = NoLoc
    /\ nproc = 0

NextBatch ==
    \/ main_start
    \/ main_mode
    \/ main_items
    \/ main_next_item
    \/ process
    \/ show
    \/ show_transfer
    \/ write_chunked_enter
    \/ write_chunked_frame
    \/ write_chunked_return
    \/ process_end
    \/ main_finish

SpecBatch == InitBatch /\ [][NextBatch]_vars

---------------------------------------------------------------------------
(* A run of main on images of many sizes while the terminal is resized     *)

\* cells of 2x2, 2x3 and 3x3 pixels; the second is wider than its columns
PlaceScreens ==
    {[width |-> 24, height |-> 12, cols |-> 12, rows |-> 6],
     [width |-> 9, height |-> 6, cols |-> 4, rows |-> 2],
     [width |-> 6, height |-> 6, cols |-> 2, rows |-> 2]}

\* line 279: the SIGWINCH handler sets the dirty flag and nothing else;
\* the terminal has a new geometry by then
resize ==
    /\ pc \notin {"main", "exit"}
    /\ \E t \in PlaceScreens \ {term} : term' = t
    /\ changed' = TRUE
    /\ UNCHANGED <<pc, chunkVars, detectVars, ttyVars, fs, ss, args, items, errors, exit_code,
                   loc, nproc, processed, magick>>

\* --place 8x4@2x3
RawBigPlace == <<"8", "x", "4", "@", "2", "x", "3">>

\* an image that takes two frames once converted to raw RGBA on the widest screen
BigImage == ImageFile("jpeg", "rgba", 20, 40)

PlaceImages ==
    {ImageFile(f, "rgb", w, h) : f \in {"png", "jpeg"}, w \in 1..MaxImgWidth, h \in {2, 5}}
        \cup {BigImage}

InitPlace ==
    /\ pc = "main"
    /\ ret = ""
    /\ cmd = EmptyCmd /\ data = <<>> /\ out = <<>>
    /\ wc_cmd0 = EmptyCmd /\ wc_data0 = <<>>
    /\ DetectIdle
    /\ \E img \in PlaceImages : fs = Put(EmptyCmd, PathPng, img)
    /\ ss = NoScreen
    /\ changed = TRUE
    /\ term \in PlaceScreens
    /\ magick = TRUE
    /\ processed = <<>>
    /\ args \in [align : {"center", "left", "right"}, raw : {<<>>, RawBigPlace},
                 place : {NoPlace}, scale_up : {FALSE},
                 transfer_mode : {"file", "stream"}]
    /\ items \in {<<PathItem(PathPng)>>} \cup
                 (IF args.raw = <<>> THEN {<<PathItem(PathPng), PathItem(PathPng)>>} ELSE {})
    /\ errors = <<>>
    /\ exit_code = ""
    /\ loc = NoLoc
    /\ nproc = 0

NextPlace ==
    \/ main_start
    \/ main_mode
    \/ main_items
    \/ main_next_item
    \/ process
    \/ show
    \/ show_transfer
    \/ write_chunked_enter
    \/ write_chunked_frame
    \/ write_chunked_return
    \/ process_end
    \/ main_finish
    \/ resize

SpecPlace == InitPlace /\ [][NextPlace]_vars

---------------------------------------------------------------------------
(* A run of main on one image with a --place string of any shape           *)

\* what stands where a number is expected: 8, 12, 0, -1, a letter, nothing
PlaceFields == {<<"8">>, <<"1", "2">>, <<"0">>, <<"-", "1">>, <<"a">>, <<>>}

\* the strings with the shape WxH@LxT, and some without it
RawPlaces ==
    {w \o <<"x">> \o h \o <<"@">> \o l \o <<"x">> \o t :
        w \in PlaceFields, h \in {<<"4">>, <<"-", "1">>}, l \in PlaceFields,
        t \in {<<"3">>, <<"a">>}}
    \cup {<<"8", "x", "4">>,
          <<"8", "x", "4", "@", "2">>,
          <<"8", "x", "4", "@", "2", "x", "3", "@", "1">>,
          <<"8", "x", "4", "x", "1", "@", "2", "x", "3">>,
          <<"8", "4", "@", "2", "x", "3">>,
          <<"@">>,
          <<"+", "8", "x", "4", "@", "2", "x", "3">>}

InitParse ==
    /\ pc = "main"
    /\ ret = ""
    /\ cmd = EmptyCmd /\ data = <<>> /\ out = <<>>
    /\ wc_cmd0 = EmptyCmd /\ wc_data0 = <<>>
    /\ received = <<>> /\ responses = EmptyCmd
    /\ silent = FALSE
    /\ has_files = FALSE
    /\ ds_result = FALSE
    /\ calls = 0
    /\ tty_in = <<>>
    /\ tty_script \in {<<>>, <<Resp("1", OKPayload) \o Resp("2", <<"E">>)>>}
    /\ fs = UserFiles
    /\ ss = NoScreen
    /\ changed = TRUE
    /\ term = [width |-> 24, height |-> 12, cols |-> 12, rows |-> 6]
    /\ magick = TRUE
    /\ processed = <<>>
    /\ args \in [align : {"center"}, raw : RawPlaces, place : {NoPlace}, scale_up : {FALSE},
                 transfer_mode : {"detect"}]
    /\ items = <<PathItem(PathPng)>>
    /\ errors = <<>>
    /\ exit_code = ""
    /\ loc = NoLoc
    /\ nproc = 0

SpecParse == InitParse /\ [][Next]_vars

---------------------------------------------------------------------------
(* Claims about process, show and main, checked under Spec                 *)

\* the frames written for the item being processed
ItemFrames == SelectSeq(SubSeq(out, loc.base + 1, Len(out)), IsFrame)

\* the item is a file the user named, it is a PNG that needs no scaling,
\* and the file transfer capability is set
NamedPngFastPath ==
    /\ ~loc.is_tempfile
    /\ identify(fs, loc.path).ok
    /\ identify(fs, loc.path).fmt = "png"
    /\ ~NeedsScaling(identify(fs, loc.path), args, loc.ss)
    /\ has_files

\* C8: for a named PNG file that needs no scaling, with file transfer
\* supported, convert is never invoked and exactly one image frame is
\* written; it carries t=f and the encoded absolute path of the file.
C8_NamedPngGoesByPath ==
    (pc \in {"show", "show_transfer", "process_end"} /\ NamedPngFastPath) =>
        /\ ~loc.converted
        /\ loc.outfile = loc.path
        /\ pc = "process_end" =>
              /\ Len(ItemFrames) = 1
              /\ "t" \in DOMAIN ItemFrames[1].cmd
              /\ ItemFrames[1].cmd["t"] = "f"
              /\ ItemFrames[1].payload = standard_b64encode(abspath(loc.path))

\* the file "a", given by a relative name, has been sent
C8_Witness ==
    /\ pc = "process_end"
    /\ NamedPngFastPath
    /\ loc.path = PathPng
    /\ Len(ItemFrames) = 1

\* the buffer convert wrote for the item
ConvertedBuffer == RawPixels(loc.width, loc.height, IF loc.fmt = 24 THEN "rgb" ELSE "rgba")

ItemStreamed ==
    /\ Len(ItemFrames) >= 1
    /\ \A i \in 1..Len(ItemFrames) : "t" \notin DOMAIN ItemFrames[i].cmd
    /\ Received(ItemFrames) = <<TRUE, ConvertedBuffer>>

\* C9 as claimed: whenever convert was invoked, its buffer is streamed
\* through write_chunked and never sent by path, whatever has_files is.
C9_ConvertedAlwaysStreamed ==
    (pc = "process_end" /\ loc.converted) => ItemStreamed

\* C9 as amended: whenever convert was invoked, its output is sent by path,
\* in one frame with t=t, when has_files is true, and streamed through
\* write_chunked when has_files is false.
C9_ConvertedSentByCapability ==
    (pc = "process_end" /\ loc.converted) =>
        IF has_files
        THEN /\ Len(ItemFrames) = 1
             /\ "t" \in DOMAIN ItemFrames[1].cmd
             /\ ItemFrames[1].cmd["t"] = "t"
             /\ ItemFrames[1].payload = standard_b64encode(abspath(loc.outfile))
        ELSE ItemStreamed

\* a converted image has been sent by path
C9_Witness ==
    /\ pc = "process_end"
    /\ loc.converted
    /\ has_files
    /\ Len(ItemFrames) = 1

\* C10: when the processing of an item has ended without a fatal error,
\* every temporary file the client created for it (the stdin temporary file,
\* the conversion output) has been deleted by the client.
\* (Refuted by the code: the stdin file is never unlinked when the image is
\* converted, and nothing is unlinked after a transfer by path.)
C10_TemporaryFilesDeleted ==
    (pc = "main_loop" /\ nproc >= 1) =>
        /\ loc.is_tempfile => StdinTmpPath \notin DOMAIN fs
        /\ loc.converted => loc.outfile \notin DOMAIN fs

---------------------------------------------------------------------------
(* Claims about the placement, checked under SpecPlace                     *)

\* the pixel width of a cell, and the cells an image of w pixels needs
CellWidth(scr) == scr.width \div scr.cols

CellsNeeded(w, scr) == CeilDiv(w, CellWidth(scr))

\* show has just placed the image in the rectangle 8x4@2x3, centred, and the
\* image needs 5 cells of width
PlacedFiveCellsCentred ==
    /\ pc = "show_transfer"
    /\ args.place = [given |-> TRUE, width |-> 8, height |-> 4, left |-> 2, top |-> 3]
    /\ args.align = "center"
    /\ CellsNeeded(loc.width, ss) = 5

\* C11 as stated: in the rectangle 8x4@2x3, an image needing 5 cells, centred,
\* gets the cursor moved to row 4, column 5.
\* (Refuted by the code: place.left + 1 + (8 - 5) div 2 is column 4.)
C11_CursorAtRow4Column5 ==
    PlacedFiveCellsCentred => out[Len(out)] = Text("ESC[row;colH", <<4, 5>>)

\* C11 as amended: the cursor is moved to row 4, column 4 (1-indexed), the
\* value of place.top + 1 and place.left + 1 + floor((8 - 5) / 2).
C11_CursorAtRow4Column4 ==
    PlacedFiveCellsCentred => out[Len(out)] = Text("ESC[row;colH", <<4, 4>>)

C11_Witness ==
    /\ PlacedFiveCellsCentred
    /\ out[Len(out)].text = "ESC[row;colH"
    /\ loc.width = 10

\* the reference of the claim: the remainder for right, half of it for center
RemainderOffset(W, C, align) ==
    IF align = "left" \/ W % C = 0 THEN 0
    ELSE IF align = "right" THEN W % C
    ELSE (W % C) \div 2

\* what is left of the last cell the image touches: the least k >= 0 with
\* W + k a multiple of C; all of it for right, half of it for center
SpareOffset(W, C, align) ==
    LET spare == CHOOSE k \in 0..(C - 1) : (W + k) % C = 0
    IN  IF align = "left" THEN 0
        ELSE IF align = "right" THEN spare
        ELSE spare \div 2

\* show has just set the X key of the Command
OffsetSet == pc = "show_transfer" /\ "X" \in DOMAIN cmd

\* C12 as stated: the offset calculate_in_cell_x_offset(W, C, align) returns is
\* 0 for left or when C divides W, otherwise W mod C for right and
\* (W mod C) div 2 for center, and so 0 <= result < C.
\* (Refuted by the code: it returns C - W mod C and half of that.)
C12_OffsetIsRemainder ==
    OffsetSet =>
        /\ cmd["X"] = RemainderOffset(loc.width, CellWidth(ss), args.align)
        /\ cmd["X"] >= 0 /\ cmd["X"] < CellWidth(ss)

\* C12 as amended: the offset is 0 for left or when C divides W, otherwise
\* C - (W mod C) for right and (C - (W mod C)) div 2 for center, and so
\* 0 <= result < C.
C12_OffsetIsSpareOfCell ==
    OffsetSet =>
        /\ cmd["X"] = SpareOffset(loc.width, CellWidth(ss), args.align)
        /\ cmd["X"] >= 0 /\ cmd["X"] < CellWidth(ss)

C12_Witness ==
    /\ OffsetSet
    /\ args.align = "right"
    /\ CellWidth(ss) = 3
    /\ loc.width % 3 = 1
    /\ cmd["X"] = 2

\* kitty.utils.fit_image: the size scaled down, keeping the aspect ratio, to
\* fit the box pwidth x pheight
fit_image(width, height, pwidth, pheight) ==
    LET s1 == IF height > pheight THEN <<(pheight * width) \div height, pheight>>
              ELSE <<width, height>>
        s2 == IF s1[1] > pwidth THEN <<pwidth, (pwidth * s1[2]) \div s1[1]>> ELSE s1
        s3 == IF s2[2] > pheight THEN <<(pheight * s2[1]) \div s2[2], pheight>> ELSE s2
    IN  s3

\* show has just called set_cursor (no Place was given)
CursorSet == pc = "show_transfer" /\ ~args.place.given

\* C17: in set_cursor, when the cells needed exceed the column count, the
\* Command gets c = the column count and r = ceil(fittedHeight / cell pixel
\* height), fittedHeight being the height fit_image returns for the image
\* re-fitted to the screen's pixel width; no X key is set and no spaces are
\* written.  Otherwise neither c nor r is set.
\* (Refuted by the code: line 117 discards the result of fit_image and line
\* 119 uses the height the image had before the re-fit.)
C17_FullWidthUsesFittedHeight ==
    CursorSet =>
        IF CellsNeeded(loc.width, ss) > ss.cols
        THEN /\ "c" \in DOMAIN cmd /\ cmd["c"] = ss.cols
             /\ "r" \in DOMAIN cmd
             /\ cmd["r"] = CeilDiv(fit_image(loc.width, loc.height, ss.width, loc.height)[2],
                                   ss.height \div ss.rows)
             /\ "X" \notin DOMAIN cmd
             /\ Len(out) = loc.base
        ELSE "c" \notin DOMAIN cmd /\ "r" \notin DOMAIN cmd

\* C19: the geometry process used for the scaling decision and the target
\* box (its local ss) and the geometry set_cursor / set_cursor_for_place used
\* are the same sample, whenever a resize arrives.
\* (Refuted by the code: a SIGWINCH between line 179 and line 112 or 133 sets
\* the dirty flag, and the second query samples the terminal again.)
C19_SameSampleForOneImage ==
    pc = "show_transfer" => ss = loc.ss

\* the part of C19 that holds: the handler changes nothing but the flag
\* (the terminal's own geometry is not state of the program)
ResizeSetsOnlyTheFlag ==
    [][resize => UNCHANGED <<pc, chunkVars, detectVars, ttyVars, fs, ss, args, items, errors,
                             exit_code, loc, nproc, processed>>]_vars

\* what the item being processed has written to stdout so far
ItemOut == SubSeq(out, loc.base + 1, Len(out))

AllFrames(s) == \A i \in 1..Len(s) : IsFrame(s[i])

\* the unused columns to the left of an image of w pixels
LeadingSpaces(w, scr, align) ==
    IF align = "center" THEN (scr.cols - CellsNeeded(w, scr)) \div 2
    ELSE IF align = "right" THEN scr.cols - CellsNeeded(w, scr)
    ELSE 0

\* the item taken last has been shown and process has returned
ItemShown == pc = "main_loop" /\ nproc >= 1 /\ loc.outfile # <<>>

\* C18: for an image without a Place that fits the columns, the alignment
\* spaces (none for left, (columns - cells) div 2 for center, columns - cells
\* for right) are written before the first frame of the image and after all
\* that earlier images wrote; with a Place, the cursor-position escape is
\* written before the first frame; nothing is ever written between two
\* frames of one image.
C18_SpacesThenFramesOnly ==
    /\ nproc >= 1 =>
          \A i, j, k \in 1..Len(ItemOut) :
              (i < j /\ j < k /\ IsFrame(ItemOut[i]) /\ IsFrame(ItemOut[k]))
                  => IsFrame(ItemOut[j])
    /\ (ItemShown /\ args.place.given) =>
          /\ Len(ItemOut) >= 2
          /\ ItemOut[1].text = "ESC[row;colH"
          /\ AllFrames(Tail(ItemOut))
    /\ (ItemShown /\ ~args.place.given /\ CellsNeeded(loc.width, ss) <= ss.cols) =>
          LET n == LeadingSpaces(loc.width, ss, args.align)
              lead == IF n > 0 THEN <<Text("spaces", <<n>>)>> ELSE <<>>
          IN  /\ Len(ItemOut) >= Len(lead) + 2
              /\ SubSeq(ItemOut, 1, Len(lead)) = lead
              /\ AllFrames(SubSeq(ItemOut, Len(lead) + 1, Len(ItemOut) - 1))
              /\ ItemOut[Len(ItemOut)] = Text("newline", <<>>)

\* the second image was sent in two frames after its alignment spaces
C18_Witness ==
    /\ ItemShown
    /\ nproc = 2
    /\ Len(ItemOut) = 4
    /\ ItemOut[1].text = "spaces"
    /\ IsFrame(ItemOut[2]) /\ IsFrame(ItemOut[3])
    /\ \E i \in 1..loc.base : IsFrame(out[i])

---------------------------------------------------------------------------
(* Claims about the item loop of main, checked under SpecBatch             *)

\* identify raises OpenFailed for the path
Unreadable(path) == ~identify(fs, path).ok

\* convert raises ConvertFailed for the path
Unconvertible(path) == identify(fs, path).ok /\ ConvertFails(fs, path)

C16_DirectoryFilesProcessed ==
    /\ exit_code # "TypeError"
    /\ (pc = "main_loop" /\ nproc >= 1 /\ isdir(loc.path)) =>
          LET found == scan(loc.path)
          IN  /\ Len(processed) >= Len(found)
              /\ SubSeq(processed, Len(processed) - Len(found) + 1, Len(processed)) = found

---------------------------------------------------------------------------
(* Claims about the --place option, checked under SpecParse                *)

\* C14: either the run ends with the place-validation error before any
\* probe or image frame is written, or the Place the run uses has four
\* non-negative integer fields.
\* (Refuted by the code: int accepts a sign, and nothing checks the range.)
C14_PlaceIsValidatedFirst ==
    /\ exit_code = "Not a valid place specification" => out = <<>>
    /\ args.place.given =>
          /\ args.place.width >= 0 /\ args.place.height >= 0
          /\ args.place.left >= 0 /\ args.place.top >= 0

---------------------------------------------------------------------------
(* More claims about main, checked under Spec                              *)

Unsupported == "This terminal emulator does not support the graphics protocol"

\* main has acted on what detect_support returned
DetectionActedOn ==
    args.transfer_mode = "detect" /\ calls >= 1 /\ pc # "main_detected"

\* C15: in transfer mode detect, main aborts with the protocol-unsupported
\* error exactly when neither probe was answered OK; when at least one was,
\* it goes on to the items.
\* (Refuted by the code: main aborts whenever probe 1 was not answered OK,
\* also when probe 2 was.)
C15_AbortsOnlyWhenNeitherMechanism ==
    DetectionActedOn =>
        (exit_code = Unsupported <=> (~ds_result /\ ~has_files))

\* the paths the user can name on the command line
UserPaths == DOMAIN UserFiles \cup {PathMissing}

\* the frames that hand a file over with the transfer mode t (delete after reading)
DeleteAfterReadFrames ==
    {i \in 1..Len(out) : IsFrame(out[i]) /\ "t" \in DOMAIN out[i].cmd /\ out[i].cmd["t"] = "t"}

\* C20: the client never deletes a file the user named and never sends its
\* path with t=t; unlink and t=t are for the stdin temporary file and the
\* conversion output only.
C20_UserFilesAreKept ==
    /\ \A p \in DOMAIN UserFiles : p \in DOMAIN fs /\ fs[p] = UserFiles[p]
    /\ \A i \in DeleteAfterReadFrames :
          /\ \A p \in UserPaths : out[i].payload # standard_b64encode(abspath(p))
          /\ out[i].payload \in {standard_b64encode(StdinTmpPath)}
                 \cup {standard_b64encode(ConvOutPath(n)) : n \in 1..nproc}

\* a file the user named went by path with t=f, after the stdin temporary
\* file had gone with t=t
C20_Witness ==
    /\ pc = "main_loop" /\ nproc = 2
    /\ DeleteAfterReadFrames # {}
    /\ \E i \in 1..Len(out) :
          /\ IsFrame(out[i]) /\ "t" \in DOMAIN out[i].cmd /\ out[i].cmd["t"] = "f"
          /\ out[i].payload = standard_b64encode(abspath(PathPng))

===========================================================================
